---- MODULE Spec2Model ----
(***************************************************************************)
(* A model of sificc_lib/DataModel.py: the DataModel class (archive        *)
(* arrays, split boundaries, shuffle, cluster augmentation, the batch       *)
(* generator, target normalisation) and the static archive builder          *)
(* generate_training_data.                                                   *)
(*                                                                           *)
(* numpy arrays are functions over 0..n-1 (Python indices).  float64        *)
(* arithmetic is modelled as binary floating point with a Precision-bit     *)
(* mantissa, round-to-nearest-even and an unbounded exponent: a value is    *)
(* the pair <<m, e>> standing for m * 2^e, kept normalised.                 *)
(***************************************************************************)
EXTENDS Integers, Sequences, FiniteSets, TLC

\* ------------------------------------------------------------------ bounds
\* mantissa bits of the modelled floating point (float64 has 53)
Precision == 4
\* events offered by the synthetic simulation that feeds the archive
MaxEvents == 3
\* most clusters per event in an archive (feature width / cluster_size)
MaxClusters == 3
\* most cluster blocks (rows times clusters per event) in an archive
MaxCells == 6
\* largest batch_size given to the constructor
MaxBatch == 2
\* longest event stream given to generate_training_data
MaxStream == 5
\* largest archive length used when only the split boundaries are exercised
MaxSplitLen == 9
\* percentages range over the floats m * 2^e, -(Precision+PctExpSpan) <= e <= -Precision
PctExpSpan == 2
\* exponents of the target values fed to normalize_targets: -ValExpSpan-Precision+1 .. 1
ValExpSpan == 3

\* --------------------------------------------------------- program constants
cluster_size == 9
target_width == 11
reco_width == 9
\* the value Python's None takes in start/end arguments (indices are >= 0)
None == -1

\* ------------------------------------------------------------ float64 model
Abs(x) == IF x < 0 THEN -x ELSE x
Min(a, b) == IF a <= b THEN a ELSE b

RECURSIVE Pow2(_)
Pow2(n) == IF n <= 0 THEN 1 ELSE 2 * Pow2(n - 1)

\* a mantissa m has Precision bits: MantissaMin <= |m| < MantissaEnd
MantissaMin == Pow2(Precision - 1)
MantissaEnd == Pow2(Precision)

\* scale (n/d) * 2^e so that MantissaMin <= |n/d| < MantissaEnd
RECURSIVE Normalise(_, _, _)
Normalise(n, d, e) ==
    IF Abs(n) >= d * MantissaEnd THEN Normalise(n, 2 * d, e + 1)
    ELSE IF Abs(n) < d * MantissaMin THEN Normalise(2 * n, d, e - 1)
    ELSE <<n, d, e>>

\* the integer nearest to n/d (n >= 0, d > 0), ties to even
RoundHalfEven(n, d) ==
    LET q == n \div d
        r == n % d
    IN  IF 2 * r < d THEN q
        ELSE IF 2 * r > d THEN q + 1
        ELSE IF q % 2 = 0 THEN q ELSE q + 1

\* the float nearest to (n/d) * 2^e, d > 0: one IEEE rounding
RoundValue(n, d, e) ==
    IF n = 0 THEN <<0, 0>>
    ELSE LET t == Normalise(n, d, e)
             m == RoundHalfEven(Abs(t[1]), t[2])
             s == IF n < 0 THEN -1 ELSE 1
         IN  IF m = MantissaEnd
             THEN <<s * MantissaMin, t[3] + 1>>
             ELSE <<s * m, t[3]>>

\* each operation below takes its operands as values: they are evaluated
\* once, before the operation is
Round(n, d, e) ==
    CHOOSE r \in {RoundValue(p[1], p[2], p[3]) : p \in {<<n, d, e>>}} : TRUE

FromInt(n) == Round(n, 1, 0)
Zero == <<0, 0>>
One == FromInt(1)

FAddValue(a, b) ==
    LET e == Min(a[2], b[2])
    IN  Round(a[1] * Pow2(a[2] - e) + b[1] * Pow2(b[2] - e), 1, e)

FAdd(a, b) == CHOOSE r \in {FAddValue(p[1], p[2]) : p \in {<<a, b>>}} : TRUE

FSubValue(a, b) == FAddValue(a, <<-b[1], b[2]>>)

FSub(a, b) == CHOOSE r \in {FSubValue(p[1], p[2]) : p \in {<<a, b>>}} : TRUE

FMulValue(a, b) == Round(a[1] * b[1], 1, a[2] + b[2])

FMul(a, b) == CHOOSE r \in {FMulValue(p[1], p[2]) : p \in {<<a, b>>}} : TRUE

FDivValue(a, b) ==
    IF b[1] < 0 THEN Round(-a[1], -b[1], a[2] - b[2])
    ELSE Round(a[1], b[1], a[2] - b[2])

FDiv(a, b) == CHOOSE r \in {FDivValue(p[1], p[2]) : p \in {<<a, b>>}} : TRUE

\* int(x): truncation towards zero
ToIntValue(x) ==
    IF x[2] >= 0 THEN x[1] * Pow2(x[2])
    ELSE IF x[1] >= 0 THEN x[1] \div Pow2(-x[2])
    ELSE -((-x[1]) \div Pow2(-x[2]))

ToInt(x) == CHOOSE r \in {ToIntValue(p) : p \in {x}} : TRUE

\* np.ceil(x), as an integer
CeilValue(x) ==
    IF x[2] >= 0 THEN x[1] * Pow2(x[2])
    ELSE -((-x[1]) \div Pow2(-x[2]))

Ceil(x) == CHOOSE r \in {CeilValue(p) : p \in {x}} : TRUE

\* ------------------------------------------------------------ numpy helpers
Rows(a) == Cardinality(DOMAIN a)

\* a[start:end] for 0 <= start, 0 <= end
PySlice(a, start, end) ==
    LET s == Min(start, Rows(a))
        e == Min(end, Rows(a))
    IN  [i \in 0..(e - s - 1) |-> a[s + i]]

\* a[idx] for an integer index array idx
Take(a, idx) == [i \in DOMAIN idx |-> a[idx[i]]]

\* np.random.permutation(n): the permutations of 0..n-1
Permutations0(n) ==
    {p \in [0..(n - 1) -> 0..(n - 1)] : \A i, j \in 0..(n - 1) : p[i] = p[j] => i = j}

\* Python's tuple of column numbers as an index array over 0..n-1
Cols(t) == [i \in 0..(Len(t) - 1) |-> t[i + 1]]

\* a[:, cols]
Project(a, cols) == [i \in DOMAIN a |-> Take(a[i], cols)]

\* ------------------------------------------------------ the event source
\* The simulation is an input: a stream of sim.n events, event idx being
\* valid (is_distributed_clusters) when sim.valid[idx] and having a zero
\* reconstructed electron energy when sim.reco_zero[idx].  Continuous
\* quantities are tokens naming the event and the column they belong to.
Token(idx, col) == 1000 + (100 * idx) + col

EventType(idx) == (idx + (idx \div 2)) % 2
EventFeatures(sim, idx) == [c \in 0..(cluster_size * sim.clusters - 1) |-> Token(idx, c)]
EventTargets(sim, idx) ==
    [c \in 0..(target_width - 1) |->
        IF c = 0 THEN EventType(idx)
        ELSE IF c = 9 THEN idx % sim.clusters
        ELSE IF c = 10 THEN ((2 * idx) + 1) % sim.clusters
        ELSE Token(idx, 50 + c)]
RecoEnergy_e(sim, idx) == IF sim.reco_zero[idx] THEN 0 ELSE Token(idx, 71)
RecoEnergy_p(sim, idx) == Token(idx, 72)
RecoPosition_e(sim, idx) == [c \in 0..2 |-> Token(idx, 73 + c)]
RecoPosition_p(sim, idx) == [c \in 0..2 |-> Token(idx, 76 + c)]

Simulations(n) ==
    [n : {n}, clusters : 1..MaxClusters,
     valid : [0..(n - 1) -> BOOLEAN], reco_zero : [0..(n - 1) -> BOOLEAN]]

\* --------------------------------------------------------------- DataModel
VARIABLES
    self,       \* the DataModel object: constructor arguments and the four arrays
    gen,        \* the frame of the generate_batch generator
    yielded,    \* the tuple handed over by the yield the generator is suspended at
    windows,    \* the row windows emitted so far in the running epoch
    split,      \* what the range accessors returned
    norm,       \* a normalize_targets / _denormalize_targets round trip
    build       \* the frame of generate_training_data

vars == <<self, gen, yielded, windows, split, norm, build>>

Empty == [i \in {} |-> 0]

\* list.append on a 0-based array
Append0(a, x) == [i \in 0..Rows(a) |-> IF i < Rows(a) THEN a[i] ELSE x]

\* validation_start_pos that leaves test_percent out
validation_start_pos_without_test(s) ==
    ToInt(FMul(FromInt(s.length), FSub(One, s.validation_percent)))

validation_start_pos(s) ==
    ToInt(FMul(FromInt(s.length),
               FSub(FSub(One, s.validation_percent), s.test_percent)))

test_start_pos(s) ==
    ToInt(FMul(FromInt(s.length), FSub(One, s.test_percent)))

steps_per_epoch(s) ==
    Ceil(FDiv(FromInt(validation_start_pos(s)), FromInt(s.batch_size)))

get_features(s, start, end) ==
    LET st == IF start # None THEN start ELSE 0
        en == IF end # None THEN end ELSE s.length
    IN  PySlice(s.features, st, en)

target_type(s) == Project(s.targets, Cols(<<0>>))
target_e_cluster(s) == Project(s.targets, Cols(<<0, 9>>))
target_p_cluster(s) == Project(s.targets, Cols(<<0, 10>>))
target_pos_x(s) == Project(s.targets, Cols(<<0, 9, 3, 10, 6>>))
target_pos_y(s) == Project(s.targets, Cols(<<0, 9, 4, 10, 7>>))
target_pos_z(s) == Project(s.targets, Cols(<<0, 9, 5, 10, 8>>))
target_energy(s) == Project(s.targets, Cols(<<0, 1, 2>>))

get_targets_dic(s, start, end) ==
    LET st == IF start # None THEN start ELSE 0
        en == IF end # None THEN end ELSE s.length
    IN  [type |-> PySlice(target_type(s), st, en),
         e_cluster |-> PySlice(target_e_cluster(s), st, en),
         p_cluster |-> PySlice(target_p_cluster(s), st, en),
         pos_x |-> PySlice(target_pos_x(s), st, en),
         pos_y |-> PySlice(target_pos_y(s), st, en),
         pos_z |-> PySlice(target_pos_z(s), st, en),
         energy |-> PySlice(target_energy(s), st, en)]

\* sequence = np.arange(self.length); sequence[:limit] = perm
index_array(s, limit, perm) ==
    [i \in 0..(s.length - 1) |-> IF i < limit THEN perm[i] ELSE i]

\* shuffle that forgets to reorder the sequence array
shuffle_keeping_seq(s, only_train) ==
    LET limit == IF only_train THEN validation_start_pos(s) ELSE s.length
    IN  {[s EXCEPT !.features = Take(s.features, sequence),
                   !.targets = Take(s.targets, sequence),
                   !.reco = Take(s.reco, sequence)] :
            sequence \in {index_array(s, limit, perm) : perm \in Permutations0(limit)}}

\* shuffle that indexes the arrays by the permutation of the first limit rows only
shuffle_dropping_rows(s, only_train) ==
    LET limit == IF only_train THEN validation_start_pos(s) ELSE s.length
    IN  {[s EXCEPT !.features = Take(s.features, sequence),
                   !.targets = Take(s.targets, sequence),
                   !.reco = Take(s.reco, sequence),
                   !.seq = Take(s.seq, sequence)] :
            sequence \in Permutations0(limit)}

\* shuffle(only_train): the objects the call can leave, one for each
\* permutation np.random.permutation(limit) can draw
shuffle(s, only_train) ==
    LET limit == IF only_train THEN validation_start_pos(s) ELSE s.length
    IN  {[s EXCEPT !.features = Take(s.features, sequence),
                   !.targets = Take(s.targets, sequence),
                   !.reco = Take(s.reco, sequence),
                   !.seq = Take(s.seq, sequence)] :
            sequence \in {index_array(s, limit, perm) : perm \in Permutations0(limit)}}

\* __get_augmentation_sequence with np.random.permutation(num_clusters) drawing sigma
get_augmentation_sequence(s, sigma) ==
    LET num_clusters == s.clusters_limit
    IN  [sequence |-> sigma,
         expanded_sequence |->
            [c \in 0..(num_clusters * cluster_size - 1) |->
                (sigma[c \div cluster_size] * cluster_size) + (c % cluster_size)]]

\* the slot the permutation sends v to, instead of the slot it takes v from
where_equal_forward(v, sequence) == {sequence[v]}

\* np.where(np.equal(v, sequence))[0]: the positions of v in sequence
where_equal(v, sequence) == {p \in DOMAIN sequence : sequence[p] = v}

\* column[:,1] = np.where(np.equal(column[:,[1]], sequence))[1]; every row
\* holds one slot of 0..clusters_limit-1, so each row matches exactly once
remap_column(column, sequence) ==
    [r \in DOMAIN column |->
        [column[r] EXCEPT ![1] = CHOOSE p \in where_equal(column[r][1], sequence) : TRUE]]

shuffle_training_clusters(s, sigmas) ==
    [s EXCEPT
        !.features = [i \in 0..(s.length - 1) |->
            Take(s.features[i], get_augmentation_sequence(s, sigmas[i]).expanded_sequence)],
        !.targets = [i \in 0..(s.length - 1) |->
            [s.targets[i] EXCEPT
                ![9] = CHOOSE p \in where_equal(s.targets[i][9], sigmas[i]) : TRUE,
                ![10] = CHOOSE p \in where_equal(s.targets[i][10], sigmas[i]) : TRUE]]]

\* ------------------------------------------------- generate_training_data
\* build_iteration recording the row number of the kept event, not its index
build_iteration_numbering_rows(acc, idx, sim) ==
    IF sim.valid[idx]
    THEN [acc EXCEPT !.features = Append0(@, EventFeatures(sim, idx)),
                     !.targets = Append0(@, EventTargets(sim, idx)),
                     !.l_valid_pos = Append0(@, TRUE),
                     !.l_events_seq = Append0(@, Rows(acc.l_events_seq))]
    ELSE [acc EXCEPT !.l_valid_pos = Append0(@, FALSE)]

\* one iteration of the loop over simulation.iterate_events()
build_iteration(acc, idx, sim) ==
    IF sim.valid[idx]
    THEN [acc EXCEPT !.features = Append0(@, EventFeatures(sim, idx)),
                     !.targets = Append0(@, EventTargets(sim, idx)),
                     !.l_valid_pos = Append0(@, TRUE),
                     !.l_events_seq = Append0(@, idx)]
    ELSE [acc EXCEPT !.l_valid_pos = Append0(@, FALSE)]

\* array[mask] for a boolean list mask: the entries 0..n-1 the mask keeps, in order
RECURSIVE mask_select(_, _, _)
mask_select(array, mask, n) ==
    IF n = 0 THEN Empty
    ELSE LET rest == mask_select(array, mask, n - 1)
         IN  IF mask[n - 1] THEN Append0(rest, array[n - 1]) ELSE rest

\* the reco rows: np.concatenate(..., axis=1), then reco[:,0] = reco[:,1] != 0
build_reco(sim, l_valid_pos) ==
    LET tree == [j \in 0..(sim.n - 1) |->
                    [c \in 0..(reco_width - 1) |->
                        IF c = 0 THEN 0
                        ELSE IF c = 1 THEN RecoEnergy_e(sim, j)
                        ELSE IF c = 2 THEN RecoEnergy_p(sim, j)
                        ELSE IF c <= 5 THEN RecoPosition_e(sim, j)[c - 3]
                        ELSE RecoPosition_p(sim, j)[c - 6]]]
        rows == mask_select(tree, l_valid_pos, Rows(l_valid_pos))
    IN  [i \in DOMAIN rows |-> [rows[i] EXCEPT ![0] = IF rows[i][1] # 0 THEN 1 ELSE 0]]

\* np.savez_compressed(features=, targets=, reco=, sequence=)
build_archive(sim, acc) ==
    [features |-> acc.features,
     targets |-> acc.targets,
     reco |-> build_reco(sim, acc.l_valid_pos),
     sequence |-> acc.l_events_seq]

EmptyLists == [features |-> Empty, targets |-> Empty, l_valid_pos |-> Empty, l_events_seq |-> Empty]

RECURSIVE build_loop(_, _)
build_loop(sim, n) ==
    IF n = 0 THEN EmptyLists ELSE build_iteration(build_loop(sim, n - 1), n - 1, sim)

generate_training_data(sim) == build_archive(sim, build_loop(sim, sim.n))

\* ---------------------------------------------------------------- __init__
\* The arrays hold normalised values; a token stands for the normalised value
\* of the quantity it names.  Column 0 and the two cluster-index columns have
\* mean 0 and std 1, so they hold the archive's numbers themselves.
DataModelInit(npz, batch_size, validation_percent, test_percent, weight_compton, weight_non_compton) ==
    [validation_percent |-> validation_percent,
     test_percent |-> test_percent,
     batch_size |-> batch_size,
     weight_compton |-> weight_compton,
     weight_non_compton |-> weight_non_compton,
     features |-> npz.features,
     targets |-> npz.targets,
     reco |-> npz.reco,
     seq |-> npz.sequence,
     clusters_limit |-> Rows(npz.features[0]) \div cluster_size,
     length |-> Rows(npz.targets)]

\* ----------------------------------------------------------- generate_batch
\* batch_window without the clamp of end to validation_start_pos
batch_window_unclamped(s, step) ==
    <<step * s.batch_size, (step + 1) * s.batch_size>>

\* start and end of the window of one step of the for loop
batch_window(s, step) ==
    LET start == step * s.batch_size
        end == (step + 1) * s.batch_size
        validation_start == validation_start_pos(s)
    IN  <<start, IF end <= validation_start THEN end ELSE validation_start>>

\* features_batch[:, expanded_sequence]
augment_features(features_batch, expanded_sequence) ==
    [r \in DOMAIN features_batch |-> Take(features_batch[r], expanded_sequence)]

\* the two in-place assignments to targets_batch['e_cluster'] and ['p_cluster']
augment_targets(targets_batch, sequence) ==
    [targets_batch EXCEPT !.e_cluster = remap_column(@, sequence),
                          !.p_cluster = remap_column(@, sequence)]

\* sample_weights with the two class weights exchanged
sample_weights_swapped(type, weight_compton, weight_non_compton) ==
    [r \in DOMAIN type |->
        [c \in DOMAIN type[r] |->
            FAdd(FMul(FromInt(type[r][c]), weight_non_compton),
                 FMul(FSub(One, FromInt(type[r][c])), weight_compton))]]

\* targets_batch['type'] * weight_compton + (1 - targets_batch['type']) * weight_non_compton
sample_weights(type, weight_compton, weight_non_compton) ==
    [r \in DOMAIN type |->
        [c \in DOMAIN type[r] |->
            FAdd(FMul(FromInt(type[r][c]), weight_compton),
                 FMul(FSub(One, FromInt(type[r][c])), weight_non_compton))]]

\* the body of the for loop up to the yield, the permutation drawn being sigma
batch_of(s, step, augment, sigma) ==
    LET w == batch_window(s, step)
        features_batch == get_features(s, w[1], w[2])
        targets_batch == get_targets_dic(s, w[1], w[2])
        aug == get_augmentation_sequence(s, sigma)
        features_out == IF augment
                        THEN augment_features(features_batch, aug.expanded_sequence)
                        ELSE features_batch
        targets_out == IF augment
                       THEN augment_targets(targets_batch, aug.sequence)
                       ELSE targets_batch
    IN  [features |-> features_out,
         targets |-> targets_out,
         weights |-> sample_weights(targets_out.type, s.weight_compton, s.weight_non_compton),
         \* what the batch was cut from, kept for the properties
         window |-> w,
         augment |-> augment,
         sigma |-> sigma,
         before |-> [features |-> features_batch, targets |-> targets_batch]]

NoBatch == [window |-> <<None, None>>]
Idle == [pc |-> "idle"]
NoGenerator ==
    [pc |-> "none", shuffle |-> FALSE, augment |-> FALSE, step |-> 0, steps |-> 0,
     running |-> FALSE]

\* self.shuffle(only_train) replaces the four arrays
ShuffleCall(only_train) == self' \in shuffle(self, only_train)

\* gen = generate_batch(shuffle, augment): the generator is created, not started
GenerateBatch ==
    /\ gen.pc = "none"
    /\ \E sh \in BOOLEAN, au \in BOOLEAN :
          gen' = [pc |-> "start", shuffle |-> sh, augment |-> au, step |-> 0,
                  steps |-> 0, running |-> FALSE]
    /\ UNCHANGED <<self, yielded, windows, split, norm, build>>

\* next(gen): the caller resumes the suspended generator
Pull ==
    /\ gen.pc \in {"start", "yield"}
    /\ ~gen.running
    /\ gen' = IF gen.pc = "start"
              THEN [gen EXCEPT !.pc = "while", !.running = TRUE]
              ELSE [gen EXCEPT !.pc = "for", !.step = @ + 1, !.running = TRUE]
    /\ yielded' = NoBatch
    /\ UNCHANGED <<self, windows, split, norm, build>>

\* the top of while True: the optional shuffle, then range(self.steps_per_epoch)
GenWhile ==
    /\ gen.pc = "while"
    /\ gen.running
    /\ IF gen.shuffle THEN ShuffleCall(TRUE) ELSE self' = self
    /\ gen' = [gen EXCEPT !.pc = "for", !.step = 0, !.steps = steps_per_epoch(self)]
    /\ windows' = [emitted |-> <<>>, complete |-> FALSE]
    /\ UNCHANGED <<yielded, split, norm, build>>

\* one pass of the for body, ending at the yield
GenEmit ==
    /\ gen.pc = "for"
    /\ gen.running
    /\ gen.step < gen.steps
    /\ \E sigma \in Permutations0(self.clusters_limit) :
          /\ gen.augment \/ sigma = [p \in 0..(self.clusters_limit - 1) |-> p]
          /\ yielded' = batch_of(self, gen.step, gen.augment, sigma)
    /\ windows' = [windows EXCEPT !.emitted = Append(@, batch_window(self, gen.step))]
    /\ gen' = [gen EXCEPT !.pc = "yield", !.running = FALSE]
    /\ UNCHANGED <<self, split, norm, build>>

\* the for loop is exhausted: back to the top of while True
GenEpochEnd ==
    /\ gen.pc = "for"
    /\ gen.running
    /\ gen.step >= gen.steps
    /\ gen' = [gen EXCEPT !.pc = "while"]
    /\ windows' = [windows EXCEPT !.complete = TRUE]
    /\ UNCHANGED <<self, yielded, split, norm, build>>

GenStep == GenWhile \/ GenEmit \/ GenEpochEnd

\* a call of shuffle(only_train) from outside the generator
Shuffle ==
    /\ ~gen.running
    /\ \E only_train \in BOOLEAN : ShuffleCall(only_train)
    /\ yielded' = NoBatch
    /\ UNCHANGED <<gen, windows, split, norm, build>>

\* a call of shuffle_training_clusters()
ShuffleTrainingClusters ==
    /\ ~gen.running
    /\ \E sigmas \in [0..(self.length - 1) -> Permutations0(self.clusters_limit)] :
          self' = shuffle_training_clusters(self, sigmas)
    /\ yielded' = NoBatch
    /\ UNCHANGED <<gen, windows, split, norm, build>>

\* the DataModel objects a specification starts from
Construct(sims, batch_sizes, validation_percents, test_percents, weights) ==
    /\ \E sim \in sims :
          \E npz \in {generate_training_data(sim)}, bs \in batch_sizes,
             vp \in validation_percents, tp \in test_percents, w \in weights :
             self = DataModelInit(npz, bs, vp, tp, w[1], w[2])
    /\ gen = NoGenerator
    /\ yielded = NoBatch
    /\ windows = [emitted |-> <<>>, complete |-> FALSE]
    /\ split = Idle
    /\ norm = Idle
    /\ build = Idle

Kept(sim) == Cardinality({i \in 0..(sim.n - 1) : sim.valid[i]})

\* archives of the first events of the stream, of at most MaxCells cluster blocks
MainSimulations ==
    {sim \in Simulations(MaxEvents) :
        /\ sim.clusters >= 2
        /\ Kept(sim) >= 1
        /\ Kept(sim) * sim.clusters <= MaxCells
        /\ \A i \in 0..(MaxEvents - 1) : sim.valid[i] = (i < Kept(sim))
        /\ \A i \in 0..(MaxEvents - 1) : sim.reco_zero[i] = (i % 2 = 1)}

Init ==
    Construct(MainSimulations, {1, MaxBatch},
              {Zero, Round(1, 20, 0)}, {Zero, Round(1, 2, 0)}, {<<One, Round(3, 4, 0)>>})

Next ==
    \/ GenerateBatch
    \/ Pull
    \/ GenWhile
    \/ GenEmit
    \/ GenEpochEnd
    \/ Shuffle
    \/ ShuffleTrainingClusters

Spec == Init /\ [][Next]_vars

\* The generator alone, on archives of one cluster per event too, with more
\* split percentages and class weights.
GenSimulations ==
    {sim \in Simulations(MaxEvents) :
        /\ Kept(sim) >= 1
        /\ Kept(sim) * sim.clusters <= MaxCells
        /\ \A i \in 0..(MaxEvents - 1) : sim.valid[i] = (i < Kept(sim))
        /\ \A i \in 0..(MaxEvents - 1) : sim.reco_zero[i] = (i % 2 = 1)}

InitGen ==
    Construct(GenSimulations, 1..MaxBatch,
              {Zero, Round(1, 20, 0), Round(1, 4, 0)},
              {Zero, Round(1, 10, 0), Round(1, 2, 0)},
              {<<One, Round(3, 4, 0)>>, <<Round(1, 2, 0), One>>})

NextGen ==
    \/ GenerateBatch
    \/ Pull
    \/ GenWhile
    \/ GenEmit
    \/ GenEpochEnd
    \/ Shuffle

SpecGen == InitGen /\ [][NextGen]_vars

\* the generator on the archives of a single row: once resumed by next(), the
\* interpreter keeps running the generator body, so its steps are weakly fair
InitFair ==
    Construct({sim \in MainSimulations : Kept(sim) = 1}, 1..MaxBatch,
              {Zero, Round(1, 20, 0)}, {Zero, Round(1, 2, 0)}, {<<One, Round(3, 4, 0)>>})

FairGen == InitFair /\ [][NextGen]_vars /\ WF_vars(GenStep)

\* ------------------------------------------------- the range accessors
\* train_x .. reco_test, each read once
ReadSplits ==
    /\ split.pc = "idle"
    /\ split' =
          LET vsp == validation_start_pos(self)
              tsp == test_start_pos(self)
          IN  [pc |-> "read",
               train_x |-> get_features(self, None, vsp),
               train_y |-> get_targets_dic(self, None, vsp),
               train_row_y |-> PySlice(self.targets, 0, vsp),
               validation_x |-> get_features(self, vsp, tsp),
               validation_y |-> get_targets_dic(self, vsp, tsp),
               validation_row_y |-> PySlice(self.targets, vsp, tsp),
               test_x |-> get_features(self, tsp, None),
               test_y |-> get_targets_dic(self, tsp, None),
               test_row_y |-> PySlice(self.targets, tsp, Rows(self.targets)),
               reco_valid |-> PySlice(self.reco, vsp, tsp),
               reco_test |-> PySlice(self.reco, tsp, Rows(self.reco))]
    /\ UNCHANGED <<self, gen, yielded, windows, norm, build>>

\* the percentages m * 2^e below 1, and 0
PctInputs ==
    {Zero} \cup
    {<<m, e>> : m \in Pow2(Precision - 1)..(Pow2(Precision) - 1),
                e \in (0 - Precision - PctExpSpan)..(0 - Precision)}

\* a + b < 1 on the exact values
SumBelowOne(a, b) ==
    LET e == Min(Min(a[2], b[2]), 0)
    IN  a[1] * Pow2(a[2] - e) + b[1] * Pow2(b[2] - e) < Pow2(0 - e)

\* an archive of n events, all valid, of one cluster each
PlainSimulation(n) ==
    [n |-> n, clusters |-> 1,
     valid |-> [i \in 0..(n - 1) |-> TRUE],
     reco_zero |-> [i \in 0..(n - 1) |-> FALSE]]

InitSplit ==
    /\ \E n \in 1..MaxSplitLen :
          \E npz \in {generate_training_data(PlainSimulation(n))},
             vp \in PctInputs, tp \in PctInputs :
             /\ SumBelowOne(vp, tp)
             /\ self = DataModelInit(npz, 1, vp, tp, One, One)
    /\ gen = NoGenerator
    /\ yielded = NoBatch
    /\ windows = [emitted |-> <<>>, complete |-> FALSE]
    /\ split = Idle
    /\ norm = Idle
    /\ build = Idle

SpecSplit == InitSplit /\ [][ReadSplits]_vars

\* ------------------------------------------ normalize / denormalize targets
eng_std_factor == Round(2, 10, 0)

\* __mean_targets, each literal rounded to the modelled precision
mean_targets ==
    Cols(<<Zero,
           Round(11569, 10000, 0),
           Round(19274, 10000, 0),
           Round(20964, 100, 0), Round(-23478, 100000, 0), Round(-53864, 10000, 0),
           Round(386, 1, 0), Round(13026, 100000, 0), Round(21382, 10000, 0),
           Zero, Zero>>)

\* __std_targets
std_targets ==
    Cols(<<One,
           FMul(Round(17861, 10000, 0), eng_std_factor),
           FMul(Round(16664, 10000, 0), eng_std_factor),
           Round(41081, 1000, 0), Round(20777, 1000, 0), Round(2719, 100, 0),
           Round(43942, 1000, 0), Round(27448, 1000, 0), Round(2821, 100, 0),
           One, One>>)

Exception == "Exception"

\* the width is neither that of the targets nor that of the reco
invalid_shape(data) == Rows(data) # target_width /\ Rows(data) # reco_width

\* normalize_targets with the statistics of the last columns for the reco form
normalize_targets_last_columns(data) ==
    IF Rows(data) = target_width
    THEN [c \in DOMAIN data |-> FDiv(FSub(data[c], mean_targets[c]), std_targets[c])]
    ELSE IF Rows(data) = reco_width
    THEN [c \in DOMAIN data |->
            FDiv(FSub(data[c], mean_targets[c + 2]), std_targets[c + 2])]
    ELSE Exception

normalize_targets(data) ==
    IF Rows(data) = target_width
    THEN [c \in DOMAIN data |-> FDiv(FSub(data[c], mean_targets[c]), std_targets[c])]
    ELSE IF Rows(data) = reco_width
    THEN [c \in DOMAIN data |->
            FDiv(FSub(data[c], PySlice(mean_targets, 0, target_width - 2)[c]),
                 PySlice(std_targets, 0, target_width - 2)[c])]
    ELSE Exception

denormalize_targets(data) ==
    IF Rows(data) = target_width
    THEN [c \in DOMAIN data |-> FAdd(FMul(data[c], std_targets[c]), mean_targets[c])]
    ELSE IF Rows(data) = reco_width
    THEN [c \in DOMAIN data |->
            FAdd(FMul(data[c], PySlice(std_targets, 0, target_width - 2)[c]),
                 PySlice(mean_targets, 0, target_width - 2)[c])]
    ELSE Exception

\* the values of a target column the model draws from: 0 and +-m * 2^e
ValInputs ==
    {Zero} \cup
    {<<sign * m, e>> : sign \in {-1, 1},
                       m \in Pow2(Precision - 1)..(Pow2(Precision) - 1),
                       e \in (1 - Precision - ValExpSpan)..1}

\* normalize_targets(data) for a vector data
Normalize ==
    /\ norm.pc = "input"
    /\ norm' = IF invalid_shape(norm.v)
               THEN [norm EXCEPT !.pc = "raised"]
               ELSE [norm EXCEPT !.pc = "normalized",
                                 !.normalized = normalize_targets(norm.v)]
    /\ UNCHANGED <<self, gen, yielded, windows, split, build>>

\* _denormalize_targets of what normalize_targets returned
Denormalize ==
    /\ norm.pc = "normalized"
    /\ norm' = [norm EXCEPT !.pc = "restored",
                            !.restored = denormalize_targets(norm.normalized)]
    /\ UNCHANGED <<self, gen, yielded, windows, split, build>>

InitNorm ==
    /\ self = DataModelInit(generate_training_data(PlainSimulation(1)),
                            1, Zero, Zero, One, One)
    /\ gen = NoGenerator
    /\ yielded = NoBatch
    /\ windows = [emitted |-> <<>>, complete |-> FALSE]
    /\ split = Idle
    /\ build = Idle
    /\ \E width \in {reco_width, reco_width + 1, target_width}, x \in ValInputs :
          norm = [pc |-> "input", v |-> [c \in 0..(width - 1) |-> x],
                  normalized |-> Empty, restored |-> Empty]

SpecNorm == InitNorm /\ [][Normalize \/ Denormalize]_vars

\* --------------------------------------- generate_training_data, step by step
\* the for loop over the events
BuildIterate ==
    /\ build.pc = "loop"
    /\ build.idx < build.sim.n
    /\ build' = [build EXCEPT !.acc = build_iteration(build.acc, build.idx, build.sim),
                              !.idx = @ + 1]
    /\ UNCHANGED <<self, gen, yielded, windows, split, norm>>

\* the reco rows are assembled and the archive is saved
BuildSave ==
    /\ build.pc = "loop"
    /\ build.idx = build.sim.n
    /\ build' = [build EXCEPT !.pc = "saved",
                              !.archive = build_archive(build.sim, build.acc)]
    /\ UNCHANGED <<self, gen, yielded, windows, split, norm>>

StreamSimulations ==
    UNION {{sim \in Simulations(n) : sim.clusters = 1} : n \in 1..MaxStream}

InitBuild ==
    /\ self = DataModelInit(generate_training_data(PlainSimulation(1)),
                            1, Zero, Zero, One, One)
    /\ gen = NoGenerator
    /\ yielded = NoBatch
    /\ windows = [emitted |-> <<>>, complete |-> FALSE]
    /\ split = Idle
    /\ norm = Idle
    /\ \E sim \in StreamSimulations :
          build = [pc |-> "loop", sim |-> sim, idx |-> 0, acc |-> EmptyLists,
                   archive |-> Empty]

SpecBuild == InitBuild /\ [][BuildIterate \/ BuildSave]_vars

\* ------------------------------------------------------------- properties
HasBatch == yielded # NoBatch

\* ceil(a / b) on the integers
CeilDiv(a, b) == (a + b - 1) \div b

\* C1: within one epoch the k-th emitted window is
\* [k*batch_size, min((k+1)*batch_size, validation_start_pos)): the windows are
\* contiguous and disjoint, hold between 1 and batch_size rows, never reach
\* validation_start_pos, and when the epoch ends there are
\* ceil(validation_start_pos / batch_size) of them covering [0, validation_start_pos).
C1_BatchWindows ==
    LET vsp == validation_start_pos(self)
        bs == self.batch_size
        n == Len(windows.emitted)
    IN  /\ \A k \in 1..n :
              LET w == windows.emitted[k]
              IN  /\ w = <<(k - 1) * bs, Min(k * bs, vsp)>>
                  /\ w[1] = (IF k = 1 THEN 0 ELSE windows.emitted[k - 1][2])
                  /\ 1 <= w[2] - w[1]
                  /\ w[2] - w[1] <= bs
                  /\ w[2] <= vsp
        /\ n <= CeilDiv(vsp, bs)
        /\ windows.complete =>
              /\ n = CeilDiv(vsp, bs)
              /\ steps_per_epoch(self) = n
              /\ (IF n = 0 THEN 0 ELSE windows.emitted[n][2]) = vsp
        /\ HasBatch =>
              /\ yielded.window = windows.emitted[n]
              /\ Rows(yielded.features) = yielded.window[2] - yielded.window[1]
              /\ \A r \in DOMAIN yielded.before.features :
                    yielded.before.features[r] = self.features[yielded.window[1] + r]

\* an epoch has ended whose last window was clamped to validation_start_pos
C1_Witness ==
    /\ windows.complete
    /\ Len(windows.emitted) >= 2
    /\ LET w == windows.emitted[Len(windows.emitted)]
       IN  w[2] - w[1] < self.batch_size

\* C2: every pull of the generator eventually returns a batch.
C2_EveryPullReturns == gen.running ~> (~gen.running /\ HasBatch)

\* C6: in every yielded batch the weight of a row is weight_compton when the
\* row's type is 1 and weight_non_compton when it is 0, with one weight per row,
\* aligned with the rows of the features and of the target dictionary.
C6_Weights ==
    HasBatch =>
        /\ DOMAIN yielded.weights = DOMAIN yielded.features
        /\ DOMAIN yielded.weights = DOMAIN yielded.targets.type
        /\ \A r \in DOMAIN yielded.weights :
              LET type == self.targets[yielded.window[1] + r][0]
              IN  /\ yielded.targets.type[r][0] = type
                  /\ type \in {0, 1}
                  /\ DOMAIN yielded.weights[r] = {0}
                  /\ type = 1 => yielded.weights[r][0] = self.weight_compton
                  /\ type = 0 => yielded.weights[r][0] = self.weight_non_compton

\* a yielded batch holding a Compton row and a non-Compton row
C6_Witness ==
    /\ HasBatch
    /\ \E r1, r2 \in DOMAIN yielded.weights :
          /\ yielded.targets.type[r1][0] = 1
          /\ yielded.targets.type[r2][0] = 0

\* the 9 scalars of cluster slot p of a features row
Block(row, p) == [j \in 0..(cluster_size - 1) |-> row[(p * cluster_size) + j]]

\* C10: in every target dictionary yielded with augment=True all copies of the
\* e-cluster index (e_cluster, pos_x, pos_y, pos_z column 1) agree, all copies of
\* the p-cluster index (p_cluster column 1, pos_x, pos_y, pos_z column 3) agree,
\* and both name the slot that holds the originally referenced block.
C10_LabelCopiesAgree ==
    (HasBatch /\ yielded.augment) =>
        \A r \in DOMAIN yielded.features :
            LET t == yielded.targets
                old == yielded.before
            IN  /\ t.pos_x[r][1] = t.e_cluster[r][1]
                /\ t.pos_y[r][1] = t.e_cluster[r][1]
                /\ t.pos_z[r][1] = t.e_cluster[r][1]
                /\ t.pos_x[r][3] = t.p_cluster[r][1]
                /\ t.pos_y[r][3] = t.p_cluster[r][1]
                /\ t.pos_z[r][3] = t.p_cluster[r][1]
                /\ Block(yielded.features[r], t.e_cluster[r][1])
                      = Block(old.features[r], old.targets.e_cluster[r][1])
                /\ Block(yielded.features[r], t.p_cluster[r][1])
                      = Block(old.features[r], old.targets.p_cluster[r][1])

\* the event a row of features, targets or reco was built from
EventOf(row) == (row[2] - 1000) \div 100

\* slot p of the row new holds the 9 scalars of slot q of the row old
SameBlock(new, p, old, q) ==
    \A j \in 0..(cluster_size - 1) :
        new[(p * cluster_size) + j] = old[(q * cluster_size) + j]

\* the slot that a permutation sigma takes from slot old
AugmentedAs(sigma, new, old) == new \in DOMAIN sigma /\ sigma[new] = old

\* C3 (per batch): in a batch yielded with augment=True under the permutation
\* sigma, the block at slot p is the block that was at slot sigma(p), and both
\* cluster-index fields hold the slot new with sigma(new) = old.
C3_Batch ==
    (HasBatch /\ yielded.augment) =>
        \A r \in DOMAIN yielded.features :
            /\ \A p \in 0..(self.clusters_limit - 1) :
                  SameBlock(yielded.features[r], p,
                            yielded.before.features[r], yielded.sigma[p])
            /\ AugmentedAs(yielded.sigma, yielded.targets.e_cluster[r][1],
                           yielded.before.targets.e_cluster[r][1])
            /\ AugmentedAs(yielded.sigma, yielded.targets.p_cluster[r][1],
                           yielded.before.targets.p_cluster[r][1])

\* a step of shuffle_training_clusters that changed something: the one
\* operation that rewrites rows where they are
ClustersShuffled ==
    /\ ~gen.running
    /\ gen' = gen
    /\ self' # self
    /\ self'.seq = self.seq

\* C3 (whole dataset): shuffle_training_clusters gives every event a
\* permutation sigma of its own with the same two properties.
C3_Dataset ==
    ClustersShuffled =>
        \A i \in 0..(self.length - 1) :
            \E sigma \in Permutations0(self.clusters_limit) :
                /\ AugmentedAs(sigma, self'.targets[i][9], self.targets[i][9])
                /\ AugmentedAs(sigma, self'.targets[i][10], self.targets[i][10])
                /\ \A p \in 0..(self.clusters_limit - 1) :
                      SameBlock(self'.features[i], p, self.features[i], sigma[p])
                /\ \A c \in 0..8 : self'.targets[i][c] = self.targets[i][c]

\* C3: augmentation consistency of generate_batch(augment=True) and of
\* shuffle_training_clusters: blocks move as sigma says with their values
\* unchanged, and the cluster indices are rewritten by the inverse of sigma.
C3_AugmentationConsistency == [][C3_Batch' /\ C3_Dataset]_vars

\* a batch augmented by a permutation that is not its own inverse, cut from
\* arrays whose clusters shuffle_training_clusters has reordered
C3_Witness ==
    /\ HasBatch
    /\ yielded.augment
    /\ Rows(yielded.features) >= 1
    /\ \E p \in DOMAIN yielded.sigma : yielded.sigma[yielded.sigma[p]] # p
    /\ \E i \in 0..(self.length - 1) :
          /\ self.features[i][0] # Token(self.seq[i], 0)
          /\ self.targets[i][9] # EventTargets([clusters |-> self.clusters_limit], self.seq[i])[9]

\* the rows of an array below limit, as a multiset: how often each row occurs
Occurrences(array, limit, row) ==
    Cardinality({i \in 0..(limit - 1) : array[i] = row})

SameRows(old, new, limit) ==
    \A i \in 0..(limit - 1) :
        Occurrences(new, limit, old[i]) = Occurrences(old, limit, old[i])

\* what a call of shuffle(only_train) must leave true
ShuffleKeeps(only_train) ==
    LET limit == IF only_train THEN validation_start_pos(self) ELSE self.length
    IN  /\ \A i \in 0..(self.length - 1) :
              /\ EventOf(self'.features[i]) = self'.seq[i]
              /\ EventOf(self'.targets[i]) = self'.seq[i]
              /\ EventOf(self'.reco[i]) = self'.seq[i]
        /\ SameRows(self.features, self'.features, limit)
        /\ SameRows(self.targets, self'.targets, limit)
        /\ SameRows(self.reco, self'.reco, limit)
        /\ SameRows(self.seq, self'.seq, limit)
        /\ \A i \in limit..(self.length - 1) :
              /\ self'.features[i] = self.features[i]
              /\ self'.targets[i] = self.targets[i]
              /\ self'.reco[i] = self.reco[i]
              /\ self'.seq[i] = self.seq[i]

\* a step that ran shuffle: the generator at the top of while True with
\* shuffle=True, or a call from outside that moved a row
RowsShuffled ==
    \/ gen.running /\ gen.pc = "while" /\ gen.shuffle
    \/ ~gen.running /\ gen' = gen /\ self'.seq # self.seq

\* C4: every shuffle, called directly or by the generator at the start of an
\* epoch, reorders features, targets, reco and sequence by one row permutation,
\* keeps the multiset of rows of the permuted range, and with only_train=True
\* leaves every row at or after validation_start_pos where and as it was.
C4_ShuffleInvariance ==
    [][\A only_train \in BOOLEAN :
          (RowsShuffled /\ ShuffleCall(only_train)) => ShuffleKeeps(only_train)]_vars

\* the training rows are out of their loaded order by the generator's own
\* shuffle while rows outside the training range exist
C4_Witness ==
    /\ gen.pc = "for"
    /\ gen.shuffle
    /\ validation_start_pos(self) < self.length
    /\ \E i \in 0..(validation_start_pos(self) - 1) : self.seq[i] # i

\* C9: features, targets, reco and sequence always have the row count they
\* were loaded with.
C9_RowCounts ==
    /\ Rows(self.features) = self.length
    /\ Rows(self.targets) = self.length
    /\ Rows(self.reco) = self.length
    /\ Rows(self.seq) = self.length
    /\ DOMAIN self.features = 0..(self.length - 1)
    /\ DOMAIN self.targets = DOMAIN self.features
    /\ DOMAIN self.reco = DOMAIN self.features
    /\ DOMAIN self.seq = DOMAIN self.features

\* a batch has been pulled from arrays that were shuffled and cluster-shuffled
C9_Witness ==
    /\ HasBatch
    /\ \E i \in 0..(self.length - 1) : self.seq[i] # i
    /\ \E i \in 0..(self.length - 1) : self.features[i][0] # Token(self.seq[i], 0)

\* the rows of a, then of b, then of c
Concat3(a, b, c) ==
    [i \in 0..(Rows(a) + Rows(b) + Rows(c) - 1) |->
        IF i < Rows(a) THEN a[i]
        ELSE IF i < Rows(a) + Rows(b) THEN b[i - Rows(a)]
        ELSE c[i - Rows(a) - Rows(b)]]

\* C5: 0 <= validation_start_pos <= test_start_pos <= length, and the train,
\* validation and test ranges the accessors return follow one another without
\* gap or overlap and make up the whole of every array.
C5_SplitBoundaries ==
    LET vsp == validation_start_pos(self)
        tsp == test_start_pos(self)
    IN  /\ 0 <= vsp
        /\ vsp <= tsp
        /\ tsp <= self.length
        /\ split.pc = "read" =>
              /\ Rows(split.train_x) = vsp
              /\ Rows(split.validation_x) = tsp - vsp
              /\ Rows(split.test_x) = self.length - tsp
              /\ Concat3(split.train_x, split.validation_x, split.test_x) = self.features
              /\ Concat3(split.train_row_y, split.validation_row_y, split.test_row_y)
                    = self.targets
              /\ Concat3(split.train_y.energy, split.validation_y.energy,
                         split.test_y.energy) = target_energy(self)
              /\ Concat3(split.train_y.type, split.validation_y.type,
                         split.test_y.type) = target_type(self)
              /\ Concat3(PySlice(self.reco, 0, vsp), split.reco_valid, split.reco_test)
                    = self.reco

\* the accessors were read on an archive with rows in each of the three ranges
C5_Witness ==
    /\ split.pc = "read"
    /\ 0 < validation_start_pos(self)
    /\ validation_start_pos(self) < test_start_pos(self)
    /\ test_start_pos(self) < self.length
    /\ Rows(split.validation_x) >= 1

PassThrough == {0, 9, 10}

\* |r - v| is at most 5 roundings of |v| + |m|
WithinRounding(r, v, m) ==
    LET e == Min(Min(r[2], v[2]), m[2])
        R == r[1] * Pow2(r[2] - e)
        V == v[1] * Pow2(v[2] - e)
        M == m[1] * Pow2(m[2] - e)
    IN  Abs(R - V) * Pow2(Precision) <= 5 * (Abs(V) + Abs(M))

\* a reco vector with two cluster-index columns added
Widened(v) == [c \in 0..(target_width - 1) |-> IF c < Rows(v) THEN v[c] ELSE Zero]

C8_BuilderFiltering ==
    build.pc = "saved" =>
        LET sim == build.sim
            a == build.archive
            kept == {j \in 0..(sim.n - 1) : sim.valid[j]}
            rows == 0..(Cardinality(kept) - 1)
        IN  /\ DOMAIN a.sequence = rows
            /\ DOMAIN a.features = rows
            /\ DOMAIN a.targets = rows
            /\ DOMAIN a.reco = rows
            /\ {a.sequence[i] : i \in rows} = kept
            /\ \A i, j \in rows : i < j => a.sequence[i] < a.sequence[j]
            /\ \A i \in rows :
                  /\ a.features[i] = EventFeatures(sim, a.sequence[i])
                  /\ a.targets[i] = EventTargets(sim, a.sequence[i])
                  /\ a.reco[i][1] = RecoEnergy_e(sim, a.sequence[i])
                  /\ a.reco[i][2] = RecoEnergy_p(sim, a.sequence[i])
                  /\ \A c \in 0..2 :
                        /\ a.reco[i][3 + c] = RecoPosition_e(sim, a.sequence[i])[c]
                        /\ a.reco[i][6 + c] = RecoPosition_p(sim, a.sequence[i])[c]
                  /\ a.reco[i][0] = (IF RecoEnergy_e(sim, a.sequence[i]) # 0 THEN 1 ELSE 0)

\* events 0, 2 and 4 of a stream of 5 were kept, one of them with a zero reco
\* e-energy and one without
C8_Witness ==
    /\ build.pc = "saved"
    /\ build.sim.n = 5
    /\ build.archive.sequence = Cols(<<0, 2, 4>>)
    /\ build.archive.reco[0][0] = 0
    /\ build.archive.reco[1][0] = 1

====
